---- MODULE Spec2Model ----
(***************************************************************************)
(* Verification model of the drone-detection API (src/app.py,             *)
(* src/audio_processor.py, src/model_loader.py).                           *)
(*                                                                         *)
(* Spec models one request to /api/detect-with-localization or             *)
(* /api/detect-with-localization-enhanced: loading the upload, choosing    *)
(* the detection strategy, the sliding-window scan of analyze_long_audio,  *)
(* and the localization step.                                              *)
(*                                                                         *)
(* Units.  Lengths are sample counts.  Times are exact rationals with      *)
(* denominator sr: a field named *_time holds the numerator, i.e. the      *)
(* value start_sample / sr is kept as start_sample over sr.  Probabilities *)
(* and thresholds are percentages (0..100).  Simulated positions are       *)
(* numerators over 10 * RandSteps metres.                                  *)
(***************************************************************************)
EXTENDS Integers, Sequences, FiniteSets, TLC

\* ---------------------------------------------------------------- bounds
\* largest channel count of an uploaded file
MaxChannels == 3
\* uploads are HalfSec * (rate / 2) + d frames long, d in -MaxRem..MaxRem
MaxRem == 1
\* longest upload, in half seconds
MaxHalf == 24
\* a clip shorter than the 3 s analysis window, in half seconds
PadHalf == 4
\* np.random.random() is drawn from {0/RandSteps, ..., (RandSteps-1)/RandSteps}
RandSteps == 2

\* most channels of a waveform passed to calculate_tdoa_enhanced
MaxTdChannels == 4
\* most samples per channel of such a waveform
MaxTdLen == 2

\* longest waveform passed to extract_features, in tenths of a second
MaxTenths == 35

\* longest TDOA vector passed to localize_drone_enhanced
MaxTdoaLen == 3

\* start-monitoring and stop-monitoring requests received in one run
MaxRequests == 3

\* calls of RealTimeDroneDetector.start_monitoring in one run
MaxDetStarts == 2

\* calls of extract_features made on one AudioProcessor
MaxCalls == 3

\* most filters and most frequency bins of a mel filter bank
MaxMels == 3
MaxBins == 6

\* longest correlation array whose peak is refined
MaxCorrLen == 4

\* ------------------------------------------------------ program constants
\* AudioProcessor.sr
sr == 22050
\* AudioProcessor.target_duration (seconds)
target_duration == 3
\* analyze_long_audio: segment_duration (seconds)
segment_duration == 3
\* long-audio cutoff of the endpoints (seconds)
long_audio_cutoff == 10
\* channels needed for real localization
channels_required == 3
\* AudioProcessor.n_mels
n_mels == 64
\* AudioProcessor.hop_length
hop_length == 256
\* AudioProcessor.n_fft
n_fft == 1024
\* AudioProcessor.expected_time_frames
expected_time_frames == 259

\* ------------------------------------------------------------ input sets
Endpoints == {"unified", "enhanced"}
FileSampleRates == {22050, 44100}
HalfSecs == {0, PadHalf} \cup ((2 * long_audio_cutoff) .. MaxHalf)
\* request.form threshold, in percent (default 0.70)
Thresholds == {70, 75}
\* softmax probability of class 'drone' returned by the network, in percent
DroneProbs == {30, 40, 80}

\* sample values of the waveforms passed to calculate_tdoa_enhanced
SampleValues == {0 - 2, 0, 1}
\* sample rates passed to calculate_tdoa_enhanced
TdSampleRates == {1, 100, 22050}

NoSegment == [start_time |-> -1, end_time |-> -1, confidence |-> -1,
              is_drone |-> FALSE, probability |-> -1]
NoLocalization == [present |-> FALSE, simulated |-> FALSE,
                   estimated_position |-> <<0, 0>>]

VARIABLES
    pc,                \* position of the request handler
    endpoint,          \* which route is serving the request
    file_channels,     \* channels of the uploaded file
    threshold,         \* request.form threshold
    analyze_long,      \* request.form analyze_long
    audio_ndim,        \* audio_data.ndim after loading
    audio_channels,    \* audio_data.shape[1] after loading (1 when ndim = 1)
    audio_samples,     \* len(audio_data) after loading
    analysis_type,     \* "none" | "long_audio" | "short_audio"
    start_sample,      \* loop variable of analyze_long_audio
    segments,          \* analyze_long_audio: segments
    max_confidence,    \* analyze_long_audio: max_confidence
    best_segment,      \* analyze_long_audio: best_segment (NoSegment = None)
    failed_segments,   \* start samples whose extract/predict raised
    extract_calls,     \* calls of extract_features made by the request
    predict_calls,     \* calls of model_loader.predict made by the request
    processed_len,     \* len(y_processed) of the last extract_features call
    status,            \* "pending" | "success" | "error"
    detected,          \* result['detected']
    probability,       \* result['probability']
    detected_segments, \* detection_summary.detected_segments
    loc_ndim,          \* audio_data_for_localization.ndim
    loc_channels,      \* audio_data_for_localization.shape[1]
    loc_start,         \* first sample of audio_data_for_localization
    loc_end,           \* end sample of audio_data_for_localization
    localization,      \* result['localization'] (present = FALSE: no field)
    localization_type, \* result['debug']['localization_type']
    localization_error,\* result['debug']['localization_error']
    localization_attempted, \* result['debug']['localization_attempted']
    tdoa_calls,        \* calls of calculate_tdoa_enhanced
    solver_calls,      \* calls of localize_drone_enhanced
    simulated_calls,   \* executions of the simulated-position fallback
    td_pc,             \* calculate_tdoa_enhanced: "idle" | "call" | "done"
    td_in,             \* its arguments [ndim, audio, sr]
    td_ret,            \* its return value
    sv_pc,             \* localize_drone_enhanced: "idle" | "call" | "done"
    sv_in,             \* its argument tdoas
    sv_ret,            \* its return value
    fx_pc,             \* extract_features: position in the function
    fx_in,             \* its arguments [len, sr]
    fx_state,          \* its locals
    pk_pc,             \* peak refinement: "idle" | "call" | "done"
    pk_in,             \* the correlation array
    pk_ret,            \* peak_idx and the offset of the refinement
    is_monitoring,     \* app.py: the global is_monitoring
    mon_threads,       \* the monitoring_loop threads, in order of creation
    mon_handlers,      \* the start/stop requests received, in order
    real_time_detector,\* real_time_api.py: the global real_time_detector
    api_response,      \* last answer of a real_time_api.py handler
    device,            \* an input device with >= 3 channels is present
    rt_det,            \* the fields of a RealTimeDroneDetector
    det_threads,       \* its _processing_loop threads
    det_call,          \* the start_monitoring / stop_monitoring call made
    ap_self,           \* the attributes of the AudioProcessor
    fx_log,            \* the extract_features calls made, in order
    mf_pc,             \* create_mel_filterbank: "idle" | "call" | "done"
    mf_in,             \* n_mels, n_fft_bins and the array fft_bins
    mf_ret             \* the filter matrix, or the exception

vars == <<pc, endpoint, file_channels, threshold, analyze_long, audio_ndim,
          audio_channels, audio_samples, analysis_type, start_sample,
          segments, max_confidence, best_segment, failed_segments,
          extract_calls, predict_calls, processed_len, status, detected,
          probability, detected_segments, loc_ndim, loc_channels, loc_start,
          loc_end, localization, localization_type, localization_error,
          localization_attempted, tdoa_calls, solver_calls, simulated_calls,
          td_pc, td_in, td_ret, sv_pc, sv_in, sv_ret, fx_pc, fx_in, fx_state,
          pk_pc, pk_in, pk_ret, is_monitoring, mon_threads, mon_handlers,
          real_time_detector, api_response, device, rt_det, det_threads,
          det_call, ap_self, fx_log, mf_pc, mf_in, mf_ret>>

requestVars == <<endpoint, file_channels, threshold, analyze_long>>
audioVars == <<audio_ndim, audio_channels, audio_samples>>
scanVars == <<start_sample, segments, max_confidence, best_segment>>
locVars == <<localization, localization_type, localization_error,
             localization_attempted, tdoa_calls, solver_calls,
             simulated_calls>>
locAudioVars == <<loc_ndim, loc_channels, loc_start, loc_end>>
routeVars == <<pc, requestVars, audioVars, analysis_type, scanVars,
               failed_segments, extract_calls, predict_calls, processed_len,
               status, detected, probability, detected_segments,
               locAudioVars, locVars>>
tdVars == <<td_pc, td_in, td_ret>>
svVars == <<sv_pc, sv_in, sv_ret>>
fxVars == <<fx_pc, fx_in, fx_state>>
pkVars == <<pk_pc, pk_in, pk_ret>>
\* the variables of the specifications added to the first four
monVars == <<is_monitoring, mon_threads, mon_handlers>>
detVars == <<real_time_detector, api_response, device, rt_det, det_threads,
             det_call>>
apVars == <<ap_self, fx_log>>
mfVars == <<mf_pc, mf_in, mf_ret>>
extVars == <<pkVars, monVars, detVars, apVars, mfVars>>
fnVars == <<tdVars, svVars, fxVars, extVars>>

\* no call of the function is in progress
NoCall == [none |-> TRUE]
TdIdle == td_pc = "idle" /\ td_in = NoCall /\ td_ret = NoCall
SvIdle == sv_pc = "idle" /\ sv_in = NoCall /\ sv_ret = NoCall
FxIdle == fx_pc = "idle" /\ fx_in = NoCall /\ fx_state = NoCall
PkIdle == pk_pc = "idle" /\ pk_in = NoCall /\ pk_ret = NoCall
\* "is_monitoring = False", "monitoring_thread = None", no request yet
MonIdle == is_monitoring = FALSE /\ mon_threads = <<>> /\ mon_handlers = <<>>
\* the attributes of an AudioProcessor after __init__
AudioProcessorFields ==
    [sr |-> sr, target_duration |-> target_duration, n_mels |-> n_mels,
     hop_length |-> hop_length, n_fft |-> n_fft,
     target_samples |-> sr * target_duration,
     expected_time_frames |-> expected_time_frames]

\* "audio_processor = AudioProcessor()", no call yet
ApIdle == ap_self = AudioProcessorFields /\ fx_log = <<>>

\* no RealTimeDroneDetector has been constructed
NoDetector == [exists |-> FALSE, is_monitoring |-> FALSE,
               is_recording |-> FALSE, has_stream |-> FALSE,
               has_callback |-> FALSE, buffer_ready |-> FALSE,
               callbacks |-> 0]
NoDetCall == [op |-> "none", pc |-> "none", starts |-> 0]
\* "real_time_detector = None"
DetIdle ==
    /\ real_time_detector = "None"
    /\ api_response = "none"
    /\ rt_det = NoDetector
    /\ det_threads = <<>>
    /\ det_call = NoDetCall
MfIdle == mf_pc = "idle" /\ mf_in = NoCall /\ mf_ret = NoCall
ExtIdle ==
    PkIdle /\ MonIdle /\ DetIdle /\ device = FALSE /\ ApIdle /\ MfIdle

RouteInit ==
    /\ pc = "idle"
    /\ endpoint = "none"
    /\ file_channels = 0
    /\ threshold = 0
    /\ analyze_long = FALSE
    /\ audio_ndim = 0
    /\ audio_channels = 0
    /\ audio_samples = 0
    /\ analysis_type = "none"
    /\ start_sample = 0
    /\ segments = <<>>
    /\ max_confidence = 0
    /\ best_segment = NoSegment
    /\ failed_segments = {}
    /\ extract_calls = 0
    /\ predict_calls = 0
    /\ processed_len = 0
    /\ status = "pending"
    /\ detected = FALSE
    /\ probability = 0
    /\ detected_segments = 0
    /\ loc_ndim = 0
    /\ loc_channels = 0
    /\ loc_start = 0
    /\ loc_end = 0
    /\ localization = NoLocalization
    /\ localization_type = "none"
    /\ localization_error = "none"
    /\ localization_attempted = FALSE
    /\ tdoa_calls = 0
    /\ solver_calls = 0
    /\ simulated_calls = 0

Init == RouteInit /\ TdIdle /\ SvIdle /\ FxIdle /\ ExtIdle

Abs(x) == IF x < 0 THEN 0 - x ELSE x

\* ------------------------------------------------------- audio_processor
\* soundfile.read: a mono file decodes to a 1-D array, a file with several
\* channels to a 2-D array of shape (frames, channels)
FileNdim(ch) == IF ch > 1 THEN 2 ELSE 1

\* a loader that hands the decoded array on without the channel average
LoadNdimKeepChannels(ch) == FileNdim(ch)

\* load_audio_from_fileobj: "if len(audio_data.shape) > 1:
\*     audio_data = np.mean(audio_data, axis=1)" -- ndim of the returned array
LoadNdim(ch) == IF FileNdim(ch) > 1 THEN 1 ELSE FileNdim(ch)

\* audio_data.shape[1] if audio_data.ndim > 1 else 1
ChannelsOf(ndim, ch) == IF ndim > 1 THEN ch ELSE 1

\* floor(a * b / c) for a, b >= 0, c > 0, split so that no intermediate
\* product leaves the 32-bit integers of the checker
MulDiv(a, b, c) == (a \div c) * b + ((a % c) * b) \div c

\* resample_audio: new_length = int(len(audio_data) / orig_sr * target_sr).
\* The quotient is computed in floating point: when the exact value is an
\* integer q the rounded product may fall just below q and int() then gives
\* q - 1, so both outcomes are kept.
ResampleLens(n, orig_sr, target_sr) ==
    LET q == MulDiv(n, target_sr, orig_sr)
    IN  IF ((n % orig_sr) * target_sr) % orig_sr = 0 /\ q > 0
        THEN {q, q - 1} ELSE {q}

\* load_audio_from_fileobj: lengths the returned array can have
LoadLens(n, orig_sr) ==
    IF orig_sr # sr THEN ResampleLens(n, orig_sr, sr) ELSE {n}

\* preprocess_audio: length of the padded / truncated waveform
preprocess_audio(n, s) ==
    LET target_samples == s * target_duration
    IN  IF n < target_samples THEN n + (target_samples - n)
        ELSE target_samples

\* An array is modelled by its shape, by whether it went through the
\* normalisation and by whether all its values are finite; a failed call by
\* raised = TRUE and its message.
FeatureArray(r, c, norm, fin) ==
    [rows |-> r, frames |-> c, normalized |-> norm, finite |-> fin]

\* signal.spectrogram(y, nperseg = n_fft, noverlap = n_fft - hop_length,
\* mode = 'magnitude'): a window longer than the input is shortened to the
\* input, an overlap that is not below the window raises ValueError, and
\* without padding there are (n - noverlap) // (nperseg - noverlap) frames
\* of nperseg // 2 + 1 frequency bins.
spectrogram(n) ==
    LET nperseg == IF n_fft > n THEN n ELSE n_fft
        noverlap == n_fft - hop_length
    IN  IF noverlap >= nperseg
        THEN [raised |-> TRUE, bins |-> 0, frames |-> 0]
        ELSE [raised |-> FALSE,
              bins |-> nperseg \div 2 + 1,
              frames |-> (n - noverlap) \div (nperseg - noverlap)]

\* linear_to_mel: np.dot of the (n_mels x bins) filter bank and the
\* (bins x frames) spectrogram; a nan or an infinity of the waveform goes
\* through the FFT and the product (numpy raises for neither)
linear_to_mel(bins, frames, fin) == FeatureArray(n_mels, frames, FALSE, fin)

\* scipy.ndimage.zoom output length: int(round(n * factor)) with
\* factor = num / den
ZoomLen(n, num, den) == (2 * n * num + den) \div (2 * den)

\* a resize that leaves the features as they are
resize_to_target_skipped(features, target_frames) == features

\* AudioProcessor.resize_to_target(features, target_frames)
resize_to_target(features, target_frames) ==
    LET current_frames == features.frames
        zoomed == ZoomLen(current_frames, target_frames, current_frames)
    IN  IF current_frames = target_frames THEN features
        ELSE IF zoomed > target_frames
             THEN [features EXCEPT !.frames = target_frames]
        ELSE IF zoomed < target_frames
             THEN [features EXCEPT !.frames = zoomed + (target_frames - zoomed)]
        ELSE [features EXCEPT !.frames = zoomed]

\* AudioProcessor.extract_features(y, sr) for a 1-D waveform of n samples at
\* rate s whose values are all finite (fin) or not, on a processor whose
\* expected_time_frames is frames_wanted: the (channels, rows, frames)
\* tensor or the exception.  log10, the zoom, the normalisation and
\* astype keep finite values finite and a nan a nan.
extract_features_on(frames_wanted, n, s, fin) ==
    LET y_processed == preprocess_audio(n, s)
        Sxx == spectrogram(y_processed)
        mel_db == linear_to_mel(Sxx.bins, Sxx.frames, fin)
        resized == IF mel_db.frames # frames_wanted
                   THEN resize_to_target(mel_db, frames_wanted)
                   ELSE mel_db
        normalized == [resized EXCEPT !.normalized = TRUE]
        mel_3channel == [c \in 1..3 |-> normalized]
    IN  IF Sxx.raised
        THEN [raised |-> TRUE, error |-> "Feature extraction failed",
              channels |-> <<>>, current_frames |-> 0]
        ELSE [raised |-> FALSE, error |-> "none",
              channels |-> mel_3channel, current_frames |-> Sxx.frames]

\* extract_features on the processor as constructed
extract_features(n, s, fin) ==
    extract_features_on(expected_time_frames, n, s, fin)

\* a processor that remembers the frame count of the last spectrogram
SelfAfterExtractCaching(self, features) ==
    IF features.raised THEN self
    ELSE [self EXCEPT !.expected_time_frames = features.current_frames]

\* extract_features and the methods it calls assign no attribute of self
SelfAfterExtract(self, features) == self

\* the waveform after the call: np.pad builds a new array, y[:n] is a view
\* that nothing writes to
WaveformAfterExtract(y) == y

\* ----------------------------------------------- create_mel_filterbank
\* A filter value is an exact rational [num, den], den > 0, before the
\* scaling by enorm = 2 / (hz_points[i + 2] - hz_points[i]), which is
\* positive and so keeps zeros zero and non-zeros non-zero.

\* np.linspace(0, 1, k)[j] and np.linspace(1, 0, k)[j], j = 0 .. k - 1
LinspaceUp(k, j) == IF k = 1 THEN [num |-> 0, den |-> 1]
                    ELSE [num |-> j, den |-> k - 1]
LinspaceDown(k, j) == IF k = 1 THEN [num |-> 1, den |-> 1]
                      ELSE [num |-> k - 1 - j, den |-> k - 1]

\* the largest entry of fft_bins: floor((n_fft_bins + 1) * hz / sr) at
\* hz = sr / 2
MaxBinIndex(n_fft_bins) == (n_fft_bins + 1) \div 2

\* a test that lets equal neighbours through
IsTriangleLoose(left, center, right) == left <= center /\ center <= right

\* "if left < center < right"
IsTriangle(left, center, right) == left < center /\ center < right

\* "filters[i, lo:hi] = values" for k values raises when the slice, cut to
\* the row, has another length than k (a single value is broadcast)
SliceRaises(n_fft_bins, lo, hi, k) ==
    LET cut(x) == IF x > n_fft_bins THEN n_fft_bins ELSE x
    IN  k # 1 /\ cut(hi) - cut(lo) # k

\* row i of the bank: zeros, with the rising and the falling edge written
\* for a proper triple
FilterRow(n_fft_bins, left, center, right) ==
    [b \in 0..(n_fft_bins - 1) |->
        IF ~IsTriangle(left, center, right) THEN [num |-> 0, den |-> 1]
        ELSE IF left <= b /\ b < center
             THEN LinspaceUp(center - left, b - left)
        ELSE IF center <= b /\ b < right
             THEN LinspaceDown(right - center, b - center)
        ELSE [num |-> 0, den |-> 1]]

\* AudioProcessor.create_mel_filterbank(sr, n_mels, n_fft_bins), with
\* fft_bins the array computed in line 140 (indices 1 .. n_mels + 2 here)
create_mel_filterbank(mels, n_fft_bins, fft_bins) ==
    IF \E i \in 1..mels :
           /\ IsTriangle(fft_bins[i], fft_bins[i + 1], fft_bins[i + 2])
           /\ \/ SliceRaises(n_fft_bins, fft_bins[i], fft_bins[i + 1],
                             fft_bins[i + 1] - fft_bins[i])
              \/ SliceRaises(n_fft_bins, fft_bins[i + 1], fft_bins[i + 2],
                             fft_bins[i + 2] - fft_bins[i + 1])
    THEN [raised |-> TRUE, filters |-> <<>>]
    ELSE [raised |-> FALSE,
          filters |-> [i \in 1..mels |->
                          FilterRow(n_fft_bins, fft_bins[i], fft_bins[i + 1],
                                    fft_bins[i + 2])]]

\* ---------------------------------------------------------- model_loader
\* ModelLoader.predict for a network output whose softmax gives class
\* 'drone' the probability p (percent): confidence is the larger of the two
\* class probabilities, is_drone compares the drone probability
predict(p, thr) ==
    [is_drone |-> p >= thr,
     confidence |-> IF p >= 100 - p THEN p ELSE 100 - p,
     drone |-> p]

\* outcomes of extract_features followed by predict on one window
Outcomes == {"ok", "extract_fail", "predict_fail"}

\* ---------------------------------------------------- analyze_long_audio
\* segment_samples = int(segment_duration * sr)
segment_samples == segment_duration * sr

\* hop_size = int(segment_duration * sr * 0.5)
hop_size == (segment_duration * sr) \div 2

\* a loop bound that also visits the trailing partial windows
ScanRangeStopWhole(total_samples) == total_samples

\* the stop value of range(0, total_samples - segment_samples, hop_size)
ScanRangeStop(total_samples) == total_samples - segment_samples

\* a comparison that lets a later window of equal confidence take over
IsNewBestOrEqual(confidence, mc) == confidence >= mc

\* "if detection_result['confidence'] > max_confidence"
IsNewBest(confidence, mc) == confidence > mc

\* a strict comparison with the threshold
OverallDetectedStrict(mc, thr) == mc > thr

\* overall_detected = max_confidence >= threshold
OverallDetected(mc, thr) == mc >= thr

\* detected_segments = sum(1 for seg in segments if seg['is_drone'])
CountDrone(segs) == Cardinality({i \in 1..Len(segs) : segs[i].is_drone})

\* ------------------------------------------------------------- endpoints
\* an except clause that answers like a call that found nothing
ExceptStatusSuccess == "success"

\* the routes' "except Exception as e": the answer is
\* {'error': ..., 'status': 'error'} with HTTP status 500
ExceptStatus == "error"

\* a cutoff that sends a recording of exactly 10 s to the scanner
UseSegmentScannerInclusive(al, n) == al /\ n >= long_audio_cutoff * sr

\* "if analyze_long and audio_info['duration'] > 10", duration = len / sr
UseSegmentScanner(al, n) == al /\ n > long_audio_cutoff * sr

\* int(best_segment['start_time'] * sr), the time being t_num / sr
TimeToSample(t_num) == MulDiv(t_num, sr, sr)

\* a localization step that ignores the detection outcome
ShouldLocalizeAlways(det) == TRUE

\* "if result['detected']"
ShouldLocalize(det) == det

\* "audio_data_for_localization.ndim == 2 and
\*  audio_data_for_localization.shape[1] >= 3"
EnoughChannels(ndim, nch) == ndim = 2 /\ nch >= channels_required

\* a fallback whose x jitter factor is 1.0 instead of 0.8
SimulatedPositionWide(r1, r2) ==
    <<12 * RandSteps + (2 * r1 - RandSteps) * 5,
      8 * RandSteps + (2 * r2 - RandSteps) * 3>>

\* simulated_position = [1.2 + (random() - 0.5) * 0.8,
\*                       0.8 + (random() - 0.5) * 0.6]
\* with random() = r / RandSteps; numerators over 10 * RandSteps
SimulatedPosition(r1, r2) ==
    <<12 * RandSteps + (2 * r1 - RandSteps) * 4,
      8 * RandSteps + (2 * r2 - RandSteps) * 3>>

\* ------------------------------------------------ calculate_tdoa_enhanced
\* A waveform is a sequence of channels, each a sequence of integer samples
\* (for ndim = 1 the sequence holds the single 1-D array).  After the
\* normalisation by the global peak m every sample is v / m and every
\* correlation value is an integer over m * m; delays are exact rationals
\* [num, den] in seconds with den > 0, and [num |-> 0, den |-> 0] is NaN.
NaNDelay == [num |-> 0, den |-> 0]
ZeroDelay == [num |-> 0, den |-> 1]

\* audio_data.shape[1] of a 2-D array
NumChannels(audio) == Len(audio)

\* len(audio_data)
NumSamples(audio) == IF Len(audio) = 0 THEN 0 ELSE Len(audio[1])

\* np.max(np.abs(audio_data)); the caller guards against the empty array
MaxAbs(audio) ==
    LET vals == {Abs(audio[c][n]) :
                     c \in 1..Len(audio), n \in 1..NumSamples(audio)}
    IN  CHOOSE m \in vals : \A v \in vals : v <= m

\* np.correlate(a, v, mode='full')[k], k = 0 .. 2 * len - 2, the lag being
\* k - (len - 1); numerators over m * m
RECURSIVE CorrSum(_, _, _, _)
CorrSum(a, v, lag, n) ==
    IF n = 0 THEN 0
    ELSE CorrSum(a, v, lag, n - 1)
         + (IF n + lag >= 1 /\ n + lag <= Len(a)
            THEN a[n + lag] * v[n] ELSE 0)

Correlate(a, v) ==
    [k \in 0..(2 * Len(a) - 2) |-> CorrSum(a, v, k - (Len(a) - 1), Len(a))]

\* a peak always taken at the centre of the array, the zero lag
ArgMaxAbsCentre(c) == (Cardinality(DOMAIN c) - 1) \div 2

\* np.argmax(np.abs(correlation)): the first index of the largest magnitude
ArgMaxAbs(c) ==
    CHOOSE k \in DOMAIN c :
        /\ \A j \in DOMAIN c : Abs(c[j]) <= Abs(c[k])
        /\ \A j \in DOMAIN c : j < k => Abs(c[j]) < Abs(c[k])

\* a reference taken from channel 1 instead of channel 0
RefChannelOne(audio) == audio[2]

\* ref_channel = audio_data[:, 0]
RefChannel(audio) == audio[1]

\* a plausibility bound of 2 s instead of 2 m / 343 m/s
ExceedsPhysicalDelayLoose(num, den) == Abs(num) > 2 * den

\* abs(tdoa) > max_physical_delay, max_physical_delay = 2.0 / 343.0
ExceedsPhysicalDelay(num, den) == Abs(num) * 343 > 2 * den

\* The peak of one correlation and its refinement (lines 147-158): peak_idx,
\* whether the parabola was used, and offset = onum / oden.  When oden = 0
\* the float division gives nan (onum = 0) or an infinity.
PeakOf(c, silent) ==
    LET peak_idx == IF silent THEN 0 ELSE ArgMaxAbs(c)
        last == Cardinality(DOMAIN c) - 1
        interior == 0 < peak_idx /\ peak_idx < last
        y1 == c[peak_idx - 1]
        y2 == c[peak_idx]
        y3 == c[peak_idx + 1]
    IN  [peak_idx |-> peak_idx,
         refined |-> interior,
         onum |-> IF interior THEN y3 - y1 ELSE 0,
         oden |-> IF interior THEN 2 * (2 * y2 - y1 - y3) ELSE 1]

\* One pass of the loop body (lines 144-170) for channel v against the
\* reference a.  silent: the global peak is 0, so the normalisation is 0 / 0
\* and every correlation value is nan; np.argmax of an all-nan array is 0.
DelayOf(a, v, silent, rate) ==
    LET c == Correlate(a, v)
        pk == PeakOf(c, silent)
        zero_lag == Len(a) - 1
        sgn == IF pk.oden < 0 THEN 0 - 1 ELSE 1
        num == sgn * ((pk.peak_idx - zero_lag) * pk.oden + pk.onum)
        den == sgn * pk.oden * rate
    IN  IF pk.oden = 0
        THEN (IF pk.onum = 0 THEN NaNDelay ELSE ZeroDelay)
        ELSE IF ExceedsPhysicalDelay(num, den) THEN ZeroDelay
        ELSE [num |-> num, den |-> den]

\* a loop that visits channel 2 before channel 1
TdoaLoopRangeSwapped == <<2, 1>>

\* the channels visited by "for i in range(1, 3)"
TdoaLoopRange == <<1, 2>>

\* calculate_tdoa_enhanced(audio_data, sr): (tdoas, error)
calculate_tdoa_enhanced(ndim, audio, rate) ==
    IF ndim # 2 \/ NumChannels(audio) < 3
    THEN [is_none |-> TRUE, tdoas |-> <<>>,
          error |-> [kind |-> "insufficient_channels",
                     got |-> IF ndim > 1 THEN NumChannels(audio) ELSE 1]]
    ELSE IF NumSamples(audio) = 0
    THEN [is_none |-> TRUE, tdoas |-> <<>>,
          error |-> [kind |-> "exception", got |-> 0]]
    ELSE [is_none |-> FALSE,
          tdoas |-> [j \in 1..Len(TdoaLoopRange) |->
                        DelayOf(RefChannel(audio),
                                audio[TdoaLoopRange[j] + 1],
                                MaxAbs(audio) = 0, rate)],
          error |-> [kind |-> "none", got |-> 0]]

\* ------------------------------------------------ localize_drone_enhanced
\* Lengths are in centimetres and a delay k stands for k / 34300 s, so that
\* the range difference di = tdoa * 343 m/s is k cm.  A coordinate is an
\* exact rational [num, den] in lowest terms with den > 0.

\* config.MIC_POSITIONS = [[0, 0], [0.5, 0], [0, 0.5]] (metres)
MIC_POSITIONS == <<<<0, 0>>, <<50, 0>>, <<0, 50>>>>

RECURSIVE Gcd(_, _)
Gcd(a, b) == IF b = 0 THEN a ELSE Gcd(b, a % b)

\* the rational num / den, den # 0, in lowest terms
Frac(num, den) ==
    LET g == Gcd(Abs(num), Abs(den))
        sgn == IF den < 0 THEN 0 - 1 ELSE 1
    IN  [num |-> sgn * (num \div g), den |-> sgn * (den \div g)]

\* "return [1.0, 1.0], None": the default point
DefaultPoint == <<Frac(100, 1), Frac(100, 1)>>

\* a check of the x coordinate only
OutOfBoundsXOnly(pos) ==
    \/ pos[1].num < (0 - 1000) * pos[1].den
    \/ pos[1].num > 1000 * pos[1].den

\* "position[0] < -10 or position[0] > 10 or
\*  position[1] < -10 or position[1] > 10" (metres)
OutOfBounds(pos) ==
    \/ pos[1].num < (0 - 1000) * pos[1].den
    \/ pos[1].num > 1000 * pos[1].den
    \/ pos[2].num < (0 - 1000) * pos[2].den
    \/ pos[2].num > 1000 * pos[2].den

\* The rows of A and b built by the loop (lines 199-206), and the solution
\* of the 2 x 2 system that np.linalg.lstsq returns when A is regular.
LeastSquares(tdoas, mics) ==
    LET x0 == mics[1][1]
        y0 == mics[1][2]
        a(i) == <<2 * (mics[i + 1][1] - x0), 2 * (mics[i + 1][2] - y0)>>
        b(i) == mics[i + 1][1] * mics[i + 1][1]
                + mics[i + 1][2] * mics[i + 1][2]
                - x0 * x0 - y0 * y0 - tdoas[i] * tdoas[i]
        det == a(1)[1] * a(2)[2] - a(1)[2] * a(2)[1]
    IN  <<Frac(b(1) * a(2)[2] - a(1)[2] * b(2), det),
          Frac(a(1)[1] * b(2) - a(2)[1] * b(1), det)>>

\* the value of a normal return, "return position.tolist(), None"
SolvedReturn(pos) == [is_none |-> FALSE, position |-> pos, error |-> "none"]

\* localize_drone_enhanced(tdoas, mic_positions, sound_speed):
\* (position, error)
localize_drone_enhanced(tdoas_none, tdoas, mics) ==
    IF tdoas_none \/ Len(tdoas) # 2
    THEN [is_none |-> TRUE, position |-> <<>>,
          error |-> "Invalid TDOA data"]
    ELSE LET position == LeastSquares(tdoas, mics)
         IN  IF OutOfBounds(position)
             THEN SolvedReturn(DefaultPoint)
             ELSE SolvedReturn(position)

\* ---------------------------------------------------------------- actions
\* Both routes: read the form, load the upload (load_audio_from_fileobj) and
\* build audio_info.  A load that raises ends the request with status 'error'.
LoadAudio ==
    /\ pc = "idle"
    /\ \E e \in Endpoints, ch \in 1..MaxChannels, fsr \in FileSampleRates,
          h \in HalfSecs, d \in (0 - MaxRem)..MaxRem, thr \in Thresholds,
          al \in BOOLEAN, ok \in BOOLEAN :
         /\ h * (fsr \div 2) + d >= 0
         /\ endpoint' = e
         /\ file_channels' = ch
         /\ threshold' = thr
         /\ analyze_long' = al
         /\ IF ok
            THEN /\ \E n \in LoadLens(h * (fsr \div 2) + d, fsr) :
                        audio_samples' = n
                 /\ audio_ndim' = LoadNdim(ch)
                 /\ audio_channels' = ChannelsOf(LoadNdim(ch), ch)
                 /\ pc' = "loaded"
                 /\ status' = "pending"
            ELSE /\ UNCHANGED audioVars
                 /\ pc' = "done"
                 /\ status' = ExceptStatus
    /\ UNCHANGED <<analysis_type, scanVars, failed_segments, extract_calls,
                   predict_calls, processed_len, detected, probability,
                   detected_segments, locAudioVars, locVars>>
    /\ UNCHANGED fnVars

\* Both routes, "Standard detection": one extract_features and one predict
\* on the whole waveform; either may raise, which ends the request with
\* status 'error'.
DetectShort ==
    /\ pc = "loaded"
    /\ ~UseSegmentScanner(analyze_long, audio_samples)
    /\ analysis_type' = "short_audio"
    /\ extract_calls' = extract_calls + 1
    /\ processed_len' = preprocess_audio(audio_samples, sr)
    /\ \E o \in Outcomes, p \in DroneProbs :
         IF o = "extract_fail"
         THEN /\ pc' = "done"
              /\ status' = ExceptStatus
              /\ UNCHANGED <<predict_calls, detected, probability,
                             locAudioVars>>
         ELSE /\ predict_calls' = predict_calls + 1
              /\ IF o = "predict_fail"
                 THEN /\ pc' = "done"
                      /\ status' = ExceptStatus
                      /\ UNCHANGED <<detected, probability, locAudioVars>>
                 ELSE /\ detected' = predict(p, threshold).is_drone
                      /\ probability' = predict(p, threshold).confidence
                      /\ loc_ndim' = audio_ndim
                      /\ loc_channels' = audio_channels
                      /\ loc_start' = 0
                      /\ loc_end' = audio_samples
                      /\ pc' = "detected"
                      /\ UNCHANGED status
    /\ UNCHANGED <<requestVars, audioVars, scanVars, failed_segments,
                   detected_segments, locVars>>
    /\ UNCHANGED fnVars

\* analyze_long_audio, up to the loop: the locals are initialised
StartScan ==
    /\ pc = "loaded"
    /\ UseSegmentScanner(analyze_long, audio_samples)
    /\ analysis_type' = "long_audio"
    /\ start_sample' = 0
    /\ segments' = <<>>
    /\ max_confidence' = 0
    /\ best_segment' = NoSegment
    /\ pc' = "scanning"
    /\ UNCHANGED <<requestVars, audioVars, failed_segments, extract_calls,
                   predict_calls, processed_len, status, detected,
                   probability, detected_segments, locAudioVars, locVars>>
    /\ UNCHANGED fnVars

\* analyze_long_audio, one iteration of the loop.  An exception of
\* extract_features or predict is logged and re-raised by analyze_long_audio
\* and caught by the route, which answers with status 'error'.
ScanSegment ==
    /\ pc = "scanning"
    /\ start_sample < ScanRangeStop(audio_samples)
    /\ LET end_sample == start_sample + segment_samples
           slice_end == IF end_sample < audio_samples THEN end_sample
                        ELSE audio_samples
       IN  /\ extract_calls' = extract_calls + 1
           /\ processed_len' = preprocess_audio(slice_end - start_sample, sr)
           /\ \E o \in Outcomes, p \in DroneProbs :
                IF o = "extract_fail"
                THEN /\ failed_segments' = failed_segments \cup {start_sample}
                     /\ pc' = "done"
                     /\ status' = ExceptStatus
                     /\ UNCHANGED <<predict_calls, scanVars>>
                ELSE /\ predict_calls' = predict_calls + 1
                     /\ IF o = "predict_fail"
                        THEN /\ failed_segments' =
                                    failed_segments \cup {start_sample}
                             /\ pc' = "done"
                             /\ status' = ExceptStatus
                             /\ UNCHANGED scanVars
                        ELSE LET detection_result == predict(p, threshold)
                                 segment_info ==
                                     [start_time |-> start_sample,
                                      end_time |-> end_sample,
                                      confidence |->
                                          detection_result.confidence,
                                      is_drone |-> detection_result.is_drone,
                                      probability |-> detection_result.drone]
                             IN  /\ segments' = Append(segments, segment_info)
                                 /\ IF IsNewBest(detection_result.confidence,
                                                 max_confidence)
                                    THEN /\ max_confidence' =
                                                detection_result.confidence
                                         /\ best_segment' = segment_info
                                    ELSE UNCHANGED <<max_confidence,
                                                     best_segment>>
                                 /\ start_sample' = start_sample + hop_size
                                 /\ UNCHANGED <<failed_segments, pc, status>>
    /\ UNCHANGED <<requestVars, audioVars, analysis_type, detected,
                   probability, detected_segments, locAudioVars, locVars>>
    /\ UNCHANGED fnVars

\* analyze_long_audio after the loop (the aggregate), and the route's use of
\* its result: the result fields and audio_data_for_localization.  The
\* unified route localizes on the whole recording, the enhanced route on the
\* best segment's slice when the scan is positive.
ScanFinish ==
    /\ pc = "scanning"
    /\ ~(start_sample < ScanRangeStop(audio_samples))
    /\ detected' = OverallDetected(max_confidence, threshold)
    /\ probability' = max_confidence
    /\ detected_segments' = CountDrone(segments)
    /\ loc_ndim' = audio_ndim
    /\ loc_channels' = audio_channels
    /\ IF /\ endpoint = "enhanced"
          /\ OverallDetected(max_confidence, threshold)
          /\ best_segment # NoSegment
       THEN /\ loc_start' = TimeToSample(best_segment.start_time)
            /\ loc_end' = TimeToSample(best_segment.end_time)
       ELSE /\ loc_start' = 0
            /\ loc_end' = audio_samples
    /\ pc' = "detected"
    /\ UNCHANGED <<requestVars, audioVars, analysis_type, scanVars,
                   failed_segments, extract_calls, predict_calls,
                   processed_len, status, locVars>>
    /\ UNCHANGED fnVars

\* Both routes, "Attempt localization if drone detected", and the response.
\* The delays and the solved position of the real branch are outcomes of
\* calculate_tdoa_enhanced and localize_drone_enhanced, each of which
\* returns (None, error) when it fails.
Localize ==
    /\ pc = "detected"
    /\ IF ShouldLocalize(detected)
       THEN /\ localization_attempted' = TRUE
            /\ IF EnoughChannels(loc_ndim, loc_channels)
               THEN /\ tdoa_calls' = tdoa_calls + 1
                    /\ \E tdoa_ok \in BOOLEAN, solve_ok \in BOOLEAN :
                         IF tdoa_ok
                         THEN /\ solver_calls' = solver_calls + 1
                              /\ IF solve_ok
                                 THEN /\ localization' =
                                          [present |-> TRUE,
                                           simulated |-> FALSE,
                                           estimated_position |-> <<0, 0>>]
                                      /\ localization_type' =
                                             "REAL_MULTI_CHANNEL"
                                      /\ UNCHANGED localization_error
                                 ELSE /\ localization_error' = "loc_error"
                                      /\ UNCHANGED <<localization,
                                                     localization_type>>
                         ELSE /\ localization_error' = "tdoa_error"
                              /\ UNCHANGED <<solver_calls, localization,
                                             localization_type>>
                    /\ UNCHANGED simulated_calls
               ELSE /\ simulated_calls' = simulated_calls + 1
                    /\ \E r1 \in 0..(RandSteps - 1),
                          r2 \in 0..(RandSteps - 1) :
                         localization' =
                             [present |-> TRUE,
                              simulated |-> TRUE,
                              estimated_position |->
                                  SimulatedPosition(r1, r2)]
                    /\ localization_type' = "SIMULATED_INSUFFICIENT_CHANNELS"
                    /\ UNCHANGED <<tdoa_calls, solver_calls,
                                   localization_error>>
       ELSE /\ localization_attempted' = FALSE
            /\ UNCHANGED <<localization, localization_type,
                           localization_error, tdoa_calls, solver_calls,
                           simulated_calls>>
    /\ status' = "success"
    /\ pc' = "done"
    /\ UNCHANGED <<requestVars, audioVars, analysis_type, scanVars,
                   failed_segments, extract_calls, predict_calls,
                   processed_len, detected, probability, detected_segments,
                   locAudioVars>>
    /\ UNCHANGED fnVars

\* ----------------------------------- calculate_tdoa_enhanced as a function
\* The waveforms and sample rates the function is applied to: 1-D arrays
\* and 2-D arrays of 1 .. MaxTdChannels channels, 0 .. MaxTdLen samples long.
\* Channels 0 to 2 take every value; the function reads a further channel
\* only through the global peak, so each further channel is all 0 or all 1.
Channel(len) == [1..len -> SampleValues]
ExtraChannel(len) == {[n \in 1..len |-> 0], [n \in 1..len |-> 1]}

TdoaInit ==
    /\ RouteInit /\ SvIdle /\ FxIdle /\ ExtIdle
    /\ td_pc = "call"
    /\ \E n \in 1..MaxTdChannels, len \in 0..MaxTdLen, r \in TdSampleRates :
         \E main \in [1..(IF n < 3 THEN n ELSE 3) -> Channel(len)],
            extra \in [1..(IF n < 3 THEN 0 ELSE n - 3) -> ExtraChannel(len)],
            d \in (IF n = 1 THEN {1, 2} ELSE {2}) :
              td_in = [ndim |-> d, audio |-> main \o extra, sr |-> r]
    /\ td_ret = NoCall

\* one call of calculate_tdoa_enhanced
EstimateTdoa ==
    /\ td_pc = "call"
    /\ td_ret' = calculate_tdoa_enhanced(td_in.ndim, td_in.audio, td_in.sr)
    /\ td_pc' = "done"
    /\ UNCHANGED <<td_in, routeVars, svVars, fxVars, extVars>>

NextTdoa == EstimateTdoa

SpecTdoa == TdoaInit /\ [][NextTdoa]_vars

\* ----------------------------------- localize_drone_enhanced as a function
\* floor of the square root
ISqrt(n) == CHOOSE r \in 0..n : r * r <= n /\ n < (r + 1) * (r + 1)

\* distance in cm from src to microphone i, rounded down
MicDistance(src, i) ==
    ISqrt((src[1] - MIC_POSITIONS[i + 1][1]) * (src[1] - MIC_POSITIONS[i + 1][1])
          + (src[2] - MIC_POSITIONS[i + 1][2])
            * (src[2] - MIC_POSITIONS[i + 1][2]))

\* The integer delays within 1 cm of the exact range difference of
\* microphone i for a source at src: the exact value lies strictly between
\* the smallest and the largest of them.
ExactDelays(src, i) ==
    (MicDistance(src, i) - MicDistance(src, 0) - 1)
        .. (MicDistance(src, i) + 1 - MicDistance(src, 0))

\* the source of the solver test, (1.0, 1.0) m
TestSource == <<100, 100>>
TestDelays1 == ExactDelays(TestSource, 1)
TestDelays2 == ExactDelays(TestSource, 2)

\* delays passed to the solver: zero, small, the two sides of the 10 m
\* box (x = 0.25 - (k / 100)^2 m), a solution near -50 m, and the delays of
\* the test source
SolverDelays ==
    {0 - 709, 0 - 321, 0 - 320, 0, 16, 320, 321}
        \cup TestDelays1 \cup TestDelays2

SolverInit ==
    /\ RouteInit /\ TdIdle /\ FxIdle /\ ExtIdle
    /\ sv_pc = "call"
    /\ \E none \in BOOLEAN, len \in 0..MaxTdoaLen :
         \E t \in [1..(IF none THEN 0 ELSE len) -> SolverDelays] :
              sv_in = [is_none |-> none, tdoas |-> t]
    /\ sv_ret = NoCall

\* one call of localize_drone_enhanced(tdoas, config.MIC_POSITIONS,
\* config.SOUND_SPEED)
SolvePosition ==
    /\ sv_pc = "call"
    /\ sv_ret' = localize_drone_enhanced(sv_in.is_none, sv_in.tdoas,
                                         MIC_POSITIONS)
    /\ sv_pc' = "done"
    /\ UNCHANGED <<sv_in, routeVars, tdVars, fxVars, extVars>>

NextSolver == SolvePosition

SpecSolver == SolverInit /\ [][NextSolver]_vars

\* -------------------------------------------- extract_features as a function
\* sample rates of the waveforms: around the shortest usable window
\* (3 s must exceed the 768-sample overlap), telephone, native, CD
FeatureSampleRates == {100, 256, 257, 8000, 22050, 44100}

FeaturesInit ==
    /\ RouteInit /\ TdIdle /\ SvIdle /\ ExtIdle
    /\ fx_pc = "call"
    /\ \E r \in FeatureSampleRates, t \in 0..MaxTenths :
         \E fin \in (IF r * t >= 10 THEN BOOLEAN ELSE {TRUE}) :
           fx_in = [len |-> (r * t) \div 10, sr |-> r, finite |-> fin]
    /\ fx_state = NoCall

\* one call of audio_processor.extract_features(y, sr)
ExtractFeatures ==
    /\ fx_pc = "call"
    /\ fx_state' = extract_features(fx_in.len, fx_in.sr, fx_in.finite)
    /\ fx_pc' = "done"
    /\ UNCHANGED <<fx_in, routeVars, tdVars, svVars, extVars>>

NextFeatures == ExtractFeatures

SpecFeatures == FeaturesInit /\ [][NextFeatures]_vars

\* ------------------------------------------- the peak refinement alone
\* correlation values, and the arrays of 1 .. MaxCorrLen finite values the
\* refinement of lines 147-158 is applied to
CorrValues == (0 - 2)..2

PeakInit ==
    /\ RouteInit /\ TdIdle /\ SvIdle /\ FxIdle /\ MonIdle
    /\ DetIdle /\ device = FALSE /\ ApIdle /\ MfIdle
    /\ pk_pc = "call"
    /\ \E len \in 1..MaxCorrLen :
         \E c \in [0..(len - 1) -> CorrValues] : pk_in = c
    /\ pk_ret = NoCall

\* lines 147-158 for one correlation array
RefinePeak ==
    /\ pk_pc = "call"
    /\ pk_ret' = PeakOf(pk_in, FALSE)
    /\ pk_pc' = "done"
    /\ UNCHANGED <<pk_in, routeVars, tdVars, svVars, fxVars, monVars, detVars,
                   apVars, mfVars>>

NextPeak == RefinePeak

SpecPeak == PeakInit /\ [][NextPeak]_vars

\* ------------------------------------------------- monitoring (app.py)
\* The request handlers run in threads of the server and monitoring_loop in
\* a thread of its own; a step of the model is one read or write of the
\* global is_monitoring, one thread creation or one socketio.emit.
\*
\* A loop thread is [pc, after_stop]: pc is "check" (at the while test),
\* "body" (inside the try), "sleep" (in time.sleep) or "exited"; after_stop
\* counts, up to 2, the drone_detected events the loop emitted while
\* is_monitoring was False since the flag was last set.
\* A handler is [kind, pc, response].

\* a start handler that never finds monitoring active
StartRejectsNever(flag) == FALSE

\* start_monitoring: "if is_monitoring: return ... 'Monitoring already
\* active'"
StartRejects(flag) == flag

\* a loop that does not test the flag
LoopContinuesAlways(flag) == TRUE

\* monitoring_loop: "while is_monitoring"
LoopContinues(flag) == flag

MonitorInit ==
    /\ RouteInit /\ TdIdle /\ SvIdle /\ FxIdle /\ PkIdle
    /\ DetIdle /\ device = FALSE /\ ApIdle /\ MfIdle
    /\ MonIdle

\* a request arrives at /api/start-monitoring or /api/stop-monitoring
ReceiveRequest ==
    /\ Len(mon_handlers) < MaxRequests
    /\ \E k \in {"start", "stop"} :
         mon_handlers' = Append(mon_handlers,
                                [kind |-> k, pc |-> "begin",
                                 response |-> "none"])
    /\ UNCHANGED <<is_monitoring, mon_threads>>

\* start_monitoring, "if is_monitoring: return jsonify(error)"
StartCheck(h) ==
    /\ mon_handlers[h].kind = "start"
    /\ mon_handlers[h].pc = "begin"
    /\ IF StartRejects(is_monitoring)
       THEN mon_handlers' =
                [mon_handlers EXCEPT ![h].pc = "done",
                                     ![h].response = "already_active"]
       ELSE mon_handlers' = [mon_handlers EXCEPT ![h].pc = "set"]
    /\ UNCHANGED <<is_monitoring, mon_threads>>

\* start_monitoring, "is_monitoring = True"
StartSet(h) ==
    /\ mon_handlers[h].kind = "start"
    /\ mon_handlers[h].pc = "set"
    /\ is_monitoring' = TRUE
    /\ mon_threads' = [t \in DOMAIN mon_threads |->
                           [mon_threads[t] EXCEPT !.after_stop = 0]]
    /\ mon_handlers' = [mon_handlers EXCEPT ![h].pc = "spawn"]

\* start_monitoring, the thread is created and started; Thread.start() may
\* raise, and the except clause then clears the flag
StartSpawn(h) ==
    /\ mon_handlers[h].kind = "start"
    /\ mon_handlers[h].pc = "spawn"
    /\ \E ok \in BOOLEAN :
         IF ok
         THEN /\ mon_threads' = Append(mon_threads,
                                       [pc |-> "check", after_stop |-> 0])
              /\ mon_handlers' = [mon_handlers EXCEPT ![h].pc = "emit"]
              /\ UNCHANGED is_monitoring
         ELSE /\ is_monitoring' = FALSE
              /\ mon_handlers' =
                     [mon_handlers EXCEPT ![h].pc = "done",
                                          ![h].response = "error"]
              /\ UNCHANGED mon_threads

\* start_monitoring, socketio.emit('monitoring_started') and the answer; an
\* exception of emit is caught by the same except clause
StartEmit(h) ==
    /\ mon_handlers[h].kind = "start"
    /\ mon_handlers[h].pc = "emit"
    /\ \E ok \in BOOLEAN :
         IF ok
         THEN /\ mon_handlers' =
                     [mon_handlers EXCEPT ![h].pc = "done",
                                          ![h].response = "success"]
              /\ UNCHANGED is_monitoring
         ELSE /\ is_monitoring' = FALSE
              /\ mon_handlers' =
                     [mon_handlers EXCEPT ![h].pc = "done",
                                          ![h].response = "error"]
    /\ UNCHANGED mon_threads

\* stop_monitoring, "is_monitoring = False"
StopClear(h) ==
    /\ mon_handlers[h].kind = "stop"
    /\ mon_handlers[h].pc = "begin"
    /\ is_monitoring' = FALSE
    /\ mon_handlers' = [mon_handlers EXCEPT ![h].pc = "emit"]
    /\ UNCHANGED mon_threads

\* stop_monitoring, socketio.emit('monitoring_stopped') and the answer
StopEmit(h) ==
    /\ mon_handlers[h].kind = "stop"
    /\ mon_handlers[h].pc = "emit"
    /\ \E ok \in BOOLEAN :
         mon_handlers' =
             [mon_handlers EXCEPT ![h].pc = "done",
                                  ![h].response =
                                      IF ok THEN "success" ELSE "error"]
    /\ UNCHANGED <<is_monitoring, mon_threads>>

\* monitoring_loop, the while test
LoopCheck(t) ==
    /\ mon_threads[t].pc = "check"
    /\ mon_threads' =
           [mon_threads EXCEPT ![t].pc =
                IF LoopContinues(is_monitoring) THEN "body" ELSE "exited"]
    /\ UNCHANGED <<is_monitoring, mon_handlers>>

\* monitoring_loop, the try block up to the sleep: with probability 0.2 a
\* drone_detected event is emitted
LoopBody(t) ==
    /\ mon_threads[t].pc = "body"
    /\ \E emits \in BOOLEAN :
         mon_threads' =
             [mon_threads EXCEPT
                 ![t].pc = "sleep",
                 ![t].after_stop =
                     IF emits /\ ~is_monitoring /\ @ < 2 THEN @ + 1 ELSE @]
    /\ UNCHANGED <<is_monitoring, mon_handlers>>

\* monitoring_loop, time.sleep returns (2 s, or 1 s in the except clause)
LoopWake(t) ==
    /\ mon_threads[t].pc = "sleep"
    /\ mon_threads' = [mon_threads EXCEPT ![t].pc = "check"]
    /\ UNCHANGED <<is_monitoring, mon_handlers>>

LoopStep(t) == LoopCheck(t) \/ LoopBody(t) \/ LoopWake(t)

HandlerStep(h) ==
    \/ StartCheck(h)
    \/ StartSet(h)
    \/ StartSpawn(h)
    \/ StartEmit(h)
    \/ StopClear(h)
    \/ StopEmit(h)

NextMonitor ==
    /\ \/ ReceiveRequest
       \/ \E h \in DOMAIN mon_handlers : HandlerStep(h)
       \/ \E t \in DOMAIN mon_threads : LoopStep(t)
    /\ UNCHANGED <<routeVars, tdVars, svVars, fxVars, pkVars, detVars, apVars,
                   mfVars>>

SpecMonitor == MonitorInit /\ [][NextMonitor]_vars

\* every started thread is eventually scheduled
MonitorFairness ==
    \A t \in 1..MaxRequests :
        WF_vars(t \in DOMAIN mon_threads /\ LoopStep(t)
                /\ UNCHANGED <<routeVars, tdVars, svVars, fxVars, pkVars,
                               detVars, apVars, mfVars>>)

SpecMonitorLive == SpecMonitor /\ MonitorFairness

\* ------------------------- real-time monitoring (real_time_api.py,
\* real_time_audio.py).  The handlers of real_time_api.py, and a
\* RealTimeDroneDetector driven through its public methods.

DetectorInit ==
    /\ RouteInit /\ TdIdle /\ SvIdle /\ FxIdle /\ PkIdle /\ MonIdle
    /\ DetIdle /\ ApIdle /\ MfIdle
    /\ device \in BOOLEAN

\* the value of "real_time_detector and real_time_detector.is_monitoring"
ApiActive == real_time_detector # "None" /\ rt_det.is_monitoring

\* real_time_api.start_monitoring: unless monitoring is active the handler
\* evaluates RealTimeDroneDetector(config); real_time_api.py defines no
\* name 'config', so the call raises NameError before the global is
\* assigned and the except clause answers with status 'error'
ApiStartMonitoring ==
    /\ api_response' = IF ApiActive THEN "already_active" ELSE "error"
    /\ UNCHANGED <<real_time_detector, device, rt_det, det_threads, det_call>>

\* real_time_api.stop_monitoring: the global is None, nothing is stopped
ApiStopMonitoring ==
    /\ real_time_detector = "None"
    /\ api_response' = "stopped"
    /\ UNCHANGED <<real_time_detector, device, rt_det, det_threads, det_call>>

\* real_time_api.monitoring_status
ApiMonitoringStatus ==
    /\ api_response' = IF ApiActive THEN "active" ELSE "inactive"
    /\ UNCHANGED <<real_time_detector, device, rt_det, det_threads, det_call>>

\* RealTimeDroneDetector.__init__
Construct ==
    /\ ~rt_det.exists
    /\ rt_det' = [NoDetector EXCEPT !.exists = TRUE]
    /\ UNCHANGED <<real_time_detector, api_response, device, det_threads,
                   det_call>>

\* RealTimeDroneDetector.start_monitoring: "self.is_monitoring = True" is
\* executed before "self.audio_capture.start_capture()"
StartFlag(capturing) == TRUE

\* start_monitoring up to the call of start_capture
StartMonitoringBegin ==
    /\ rt_det.exists
    /\ det_call.pc \in {"none", "returned", "raised"}
    /\ det_call.starts < MaxDetStarts
    /\ rt_det' = [rt_det EXCEPT !.has_callback = TRUE,
                          !.is_monitoring = StartFlag(FALSE) \/ @]
    /\ det_call' = [op |-> "start", pc |-> "capture",
                    starts |-> det_call.starts + 1]
    /\ UNCHANGED <<real_time_detector, api_response, device, det_threads>>

\* MultiChannelAudioCapture.start_capture: without a device with enough
\* channels it raises, and start_monitoring has no handler, so the
\* exception leaves start_monitoring
StartCapture ==
    /\ det_call.op = "start"
    /\ det_call.pc = "capture"
    /\ IF device
       THEN /\ rt_det' = [rt_det EXCEPT !.has_stream = TRUE,
                                  !.is_recording = TRUE,
                                  !.is_monitoring = StartFlag(TRUE) \/ @]
            /\ det_call' = [det_call EXCEPT !.pc = "thread"]
       ELSE /\ det_call' = [det_call EXCEPT !.pc = "raised"]
            /\ UNCHANGED rt_det
    /\ UNCHANGED <<real_time_detector, api_response, device, det_threads>>

\* start_monitoring, the processing thread is created and started
StartThread ==
    /\ det_call.op = "start"
    /\ det_call.pc = "thread"
    /\ det_threads' = Append(det_threads, "check")
    /\ det_call' = [det_call EXCEPT !.pc = "returned"]
    /\ UNCHANGED <<real_time_detector, api_response, device, rt_det>>

\* RealTimeDroneDetector.stop_monitoring and stop_capture
StopMonitoring ==
    /\ rt_det.exists
    /\ det_call.pc \in {"none", "returned", "raised"}
    /\ det_call.op # "stop"
    /\ rt_det' = [rt_det EXCEPT !.is_monitoring = FALSE, !.is_recording = FALSE]
    /\ det_call' = [det_call EXCEPT !.op = "stop", !.pc = "returned"]
    /\ UNCHANGED <<real_time_detector, api_response, device, det_threads>>

\* MultiChannelAudioCapture.audio_callback, until 3 s of audio are buffered
AudioCallback ==
    /\ rt_det.has_stream
    /\ rt_det.is_recording
    /\ ~rt_det.buffer_ready
    /\ rt_det' = [rt_det EXCEPT !.buffer_ready = TRUE]
    /\ UNCHANGED <<real_time_detector, api_response, device, det_threads,
                   det_call>>

\* _processing_loop, the while test
ProcessingCheck(t) ==
    /\ det_threads[t] = "check"
    /\ det_threads' = [det_threads EXCEPT ![t] =
                           IF rt_det.is_monitoring THEN "body" ELSE "exited"]
    /\ UNCHANGED <<real_time_detector, api_response, device, rt_det, det_call>>

\* _processing_loop, the try block: process_audio_chunk returns None
\* (extract_features and detect_drone are stubs that return None, the
\* subscript of None raises and is caught), so the callback is not called
ProcessingBody(t) ==
    /\ det_threads[t] = "body"
    /\ det_threads' = [det_threads EXCEPT ![t] = "sleep"]
    /\ UNCHANGED <<real_time_detector, api_response, device, rt_det, det_call>>

\* _processing_loop, time.sleep returns
ProcessingWake(t) ==
    /\ det_threads[t] = "sleep"
    /\ det_threads' = [det_threads EXCEPT ![t] = "check"]
    /\ UNCHANGED <<real_time_detector, api_response, device, rt_det, det_call>>

NextDetector ==
    /\ \/ ApiStartMonitoring
       \/ ApiStopMonitoring
       \/ ApiMonitoringStatus
       \/ Construct
       \/ StartMonitoringBegin
       \/ StartCapture
       \/ StartThread
       \/ StopMonitoring
       \/ AudioCallback
       \/ \E t \in DOMAIN det_threads :
              ProcessingCheck(t) \/ ProcessingBody(t) \/ ProcessingWake(t)
    /\ UNCHANGED <<routeVars, tdVars, svVars, fxVars, pkVars, monVars, apVars,
                   mfVars>>

SpecDetector == DetectorInit /\ [][NextDetector]_vars

\* ------------------------------- repeated calls of extract_features
\* the waveforms of the calls: 0.1 s, 3 s and 3.5 s at three sample rates,
\* with and without a nan
CallInputs ==
    {[len |-> (r * t) \div 10, sr |-> r, finite |-> fin] :
         r \in {256, 8000, 22050}, t \in {1, 30, 35}, fin \in BOOLEAN}

FeatureCallsInit ==
    /\ RouteInit /\ TdIdle /\ SvIdle /\ FxIdle /\ PkIdle /\ MonIdle
    /\ DetIdle /\ device = FALSE
    /\ ApIdle /\ MfIdle

\* the caller picks the waveform of its next call
ChooseWaveform ==
    /\ fx_pc \in {"idle", "done"}
    /\ Len(fx_log) < MaxCalls
    /\ fx_in' \in CallInputs
    /\ fx_pc' = "call"
    /\ UNCHANGED <<fx_state, apVars>>

\* audio_processor.extract_features(y, sr) on the shared AudioProcessor
ExtractFeaturesCall ==
    /\ fx_pc = "call"
    /\ fx_state' = extract_features_on(ap_self.expected_time_frames,
                                       fx_in.len, fx_in.sr, fx_in.finite)
    /\ ap_self' = SelfAfterExtract(ap_self, fx_state')
    /\ fx_in' = WaveformAfterExtract(fx_in)
    /\ fx_log' = Append(fx_log, [y |-> fx_in, y_after |-> fx_in',
                                 result |-> fx_state'])
    /\ fx_pc' = "done"

NextFeatureCalls ==
    /\ ChooseWaveform \/ ExtractFeaturesCall
    /\ UNCHANGED <<routeVars, tdVars, svVars, pkVars, monVars, detVars,
                   mfVars>>

SpecFeatureCalls == FeatureCallsInit /\ [][NextFeatureCalls]_vars

\* ----------------------------------- create_mel_filterbank as a function
\* fft_bins is floor((n_fft_bins + 1) * hz_points / sr) for mel-spaced
\* hz_points from 0 to sr / 2: a non-decreasing array of n_mels + 2 bin
\* indices that starts at 0 and does not pass MaxBinIndex.  Every such
\* array is taken.
BinArrays(mels, n_fft_bins) ==
    {f \in [1..(mels + 2) -> 0..MaxBinIndex(n_fft_bins)] :
        /\ f[1] = 0
        /\ \A i \in 1..(mels + 1) : f[i] <= f[i + 1]}

FilterbankInit ==
    /\ RouteInit /\ TdIdle /\ SvIdle /\ FxIdle /\ PkIdle /\ MonIdle
    /\ DetIdle /\ device = FALSE /\ ApIdle
    /\ mf_pc = "call"
    /\ \E mels \in 1..MaxMels, n \in 1..MaxBins :
         \E f \in BinArrays(mels, n) :
              mf_in = [n_mels |-> mels, n_fft_bins |-> n, fft_bins |-> f]
    /\ mf_ret = NoCall

\* one call of create_mel_filterbank
BuildFilterbank ==
    /\ mf_pc = "call"
    /\ mf_ret' = create_mel_filterbank(mf_in.n_mels, mf_in.n_fft_bins,
                                       mf_in.fft_bins)
    /\ mf_pc' = "done"
    /\ UNCHANGED <<mf_in, routeVars, tdVars, svVars, fxVars, pkVars, monVars,
                   detVars, apVars>>

NextFilterbank == BuildFilterbank

SpecFilterbank == FilterbankInit /\ [][NextFilterbank]_vars

Next ==
    \/ LoadAudio
    \/ DetectShort
    \/ StartScan
    \/ ScanSegment
    \/ ScanFinish
    \/ Localize

Spec == Init /\ [][Next]_vars

\* ------------------------------------------------------------ properties
\* the request has been answered with a detection result
Answered == pc = "done" /\ status = "success"

\* analyze_long_audio has returned its aggregate
ScanCompleted ==
    /\ analysis_type = "long_audio"
    /\ pc \in {"detected", "done"}
    /\ status # "error"

\* the largest confidence among the recorded windows
MaxConf(segs) ==
    CHOOSE c \in {segs[i].confidence : i \in 1..Len(segs)} :
        \A j \in 1..Len(segs) : segs[j].confidence <= c

\* C1: a positive detection on an upload with at least 3 channels runs
\* calculate_tdoa_enhanced and then localize_drone_enhanced on the waveform
\* in its multi-channel form and attaches a localization with
\* simulated = false.
C1_RealLocalization ==
    (Answered /\ detected /\ file_channels >= channels_required) =>
        /\ loc_ndim = 2
        /\ loc_channels = file_channels
        /\ tdoa_calls = 1
        /\ solver_calls = 1
        /\ localization.present
        /\ ~localization.simulated

\* C2: a positive detection on a waveform with fewer than 3 channels does
\* not fail; it carries a localization with simulated = true whose position
\* is (1.2, 0.8) plus a jitter of at most 0.4 in x and 0.3 in y.
C2_SimulatedFallback ==
    (pc = "done" /\ detected /\ file_channels < channels_required) =>
        /\ status = "success"
        /\ localization.present
        /\ localization.simulated
        /\ simulated_calls = 1
        /\ Abs(localization.estimated_position[1] - 12 * RandSteps)
               <= 4 * RandSteps
        /\ Abs(localization.estimated_position[2] - 8 * RandSteps)
               <= 3 * RandSteps

C2_Witness ==
    /\ Answered
    /\ detected
    /\ file_channels = 2
    /\ localization.simulated
    /\ localization.estimated_position[1] = 8 * RandSteps

\* C3: every positive detection result carries a localization object,
\* whatever the channel count of the upload.
C3_PositiveHasLocalization ==
    (Answered /\ detected) => localization.present

C3_Witness ==
    /\ Answered
    /\ detected
    /\ file_channels >= channels_required
    /\ localization.present

\* C4: a negative detection result attempts no localization: no TDOA
\* estimate, no solve, no simulated position, and no localization field.
C4_NegativeNeverLocalizes ==
    (Answered /\ ~detected) =>
        /\ tdoa_calls = 0
        /\ solver_calls = 0
        /\ simulated_calls = 0
        /\ ~localization_attempted
        /\ ~localization.present

C4_Witness ==
    /\ Answered
    /\ ~detected
    /\ analysis_type = "long_audio"
    /\ file_channels >= channels_required

\* C5: the segment scanner is used exactly when analyze_long is set and the
\* duration is strictly above 10 s; otherwise the whole waveform, padded or
\* truncated to 3 s, is extracted and classified exactly once.
C5_StrategyChoice ==
    (analysis_type # "none") =>
        /\ (analysis_type = "long_audio")
               <=> (analyze_long /\ audio_samples > long_audio_cutoff * sr)
        /\ (analysis_type = "short_audio") =>
               /\ extract_calls = 1
               /\ processed_len = target_duration * sr
               /\ predict_calls <= 1
               /\ (pc \in {"detected", "done"} /\ status # "error")
                      => predict_calls = 1

C5_Witness ==
    /\ Answered
    /\ analyze_long
    /\ audio_samples = long_audio_cutoff * sr
    /\ analysis_type = "short_audio"
    /\ predict_calls = 1

\* C6: a scan of a waveform of duration T produces exactly
\* floor((T - 3.0) / 1.5) + 1 segments (7 for 12 s).
C6_SegmentCount ==
    ScanCompleted =>
        Len(segments) = (audio_samples - segment_samples) \div hop_size + 1

\* C7: the first segment starts at sample 0, consecutive segments start
\* 1.5 s apart, every segment spans 3.0 s and none ends after the end of
\* the waveform.
C7_SegmentGeometry ==
    (analysis_type = "long_audio") =>
        /\ (Len(segments) >= 1 => segments[1].start_time = 0)
        /\ \A i \in 1..Len(segments) :
               /\ segments[i].end_time - segments[i].start_time = 3 * sr
               /\ segments[i].end_time <= audio_samples
               /\ (i > 1 =>
                      2 * (segments[i].start_time
                           - segments[i - 1].start_time) = 3 * sr)

C7_Witness ==
    /\ ScanCompleted
    /\ Len(segments) >= 2
    /\ audio_samples - segments[Len(segments)].start_time
           < segment_samples + hop_size
    /\ segments[Len(segments)].end_time < audio_samples

\* C8: the scan's detected is true exactly when the largest confidence of
\* the scanned windows reaches the threshold, and the reported confidence is
\* that largest confidence.
C8_Aggregate ==
    (ScanCompleted /\ Len(segments) >= 1) =>
        /\ detected <=> (MaxConf(segments) >= threshold)
        /\ probability = MaxConf(segments)

C8_Witness ==
    /\ ScanCompleted
    /\ detected
    /\ probability = threshold
    /\ \E i \in 1..Len(segments) : segments[i].confidence < probability

\* C9: best_segment is a window of the largest confidence, and among the
\* windows of that confidence it is the earliest.
C9_BestSegmentFirstMax ==
    (ScanCompleted /\ Len(segments) >= 1) =>
        /\ \E i \in 1..Len(segments) : segments[i] = best_segment
        /\ best_segment.confidence = MaxConf(segments)
        /\ \A i \in 1..Len(segments) :
               segments[i].confidence = MaxConf(segments)
                   => best_segment.start_time <= segments[i].start_time

C9_Witness ==
    /\ ScanCompleted
    /\ best_segment.start_time > 0
    /\ \E i \in 1..Len(segments) :
           /\ segments[i].confidence = best_segment.confidence
           /\ segments[i].start_time > best_segment.start_time

\* C10: a window whose feature extraction or classification fails does not
\* abort the scan: the request is still answered and every window of the
\* recording has been visited.
C10_SegmentFailureIsolated ==
    (pc = "done" /\ failed_segments # {}) =>
        /\ status = "success"
        /\ \A k \in 0..((audio_samples - segment_samples) \div hop_size) :
               k * hop_size < ScanRangeStop(audio_samples)
                   => \/ k * hop_size \in failed_segments
                      \/ \E i \in 1..Len(segments) :
                             segments[i].start_time = k * hop_size

\* C11: after a positive segmented analysis the waveform handed to the
\* channel check and the estimator is the best segment's slice; after a
\* single-window analysis it is the whole waveform.
C11_LocalizeOnBestSegment ==
    (pc \in {"detected", "done"} /\ status # "error" /\ detected) =>
        IF analysis_type = "long_audio"
        THEN /\ loc_start = best_segment.start_time
             /\ loc_end = best_segment.end_time
        ELSE /\ loc_start = 0
             /\ loc_end = audio_samples

\* the estimator has returned for a waveform that passes its channel check
TdReturned == td_pc = "done"
TdMultiChannel == td_in.ndim = 2 /\ NumChannels(td_in.audio) >= 3

\* the delay of channel i before the plausibility check: [num, den], or
\* den = 0 when the refinement divided by zero
RawDelay(i) ==
    LET a == td_in.audio
        pk == PeakOf(Correlate(a[1], a[i + 1]), MaxAbs(a) = 0)
        sgn == IF pk.oden < 0 THEN 0 - 1 ELSE 1
    IN  [num |-> sgn * ((pk.peak_idx - (NumSamples(a) - 1)) * pk.oden
                        + pk.onum),
         den |-> sgn * pk.oden * td_in.sr]

\* C14 (as stated): the estimator returns the insufficient-channels error
\* and no vector when the waveform is not 2-D or has fewer than 3 channels,
\* and a vector of delays against channel 0 in every other case.
C14_Original ==
    TdReturned =>
        IF TdMultiChannel
        THEN ~td_ret.is_none
        ELSE /\ td_ret.is_none
             /\ td_ret.error.kind = "insufficient_channels"

\* C14 (amended): as C14, but a waveform with 3 or more channels and no
\* samples yields an error (the exception's text) and no vector; for one or
\* more samples the vector is measured against channel 0: a channel that
\* equals channel 0 has delay 0, unless channel 0 is silent.
C14_ChannelCheck ==
    TdReturned =>
        IF ~TdMultiChannel
        THEN /\ td_ret.is_none
             /\ td_ret.error.kind = "insufficient_channels"
             /\ td_ret.error.got =
                    (IF td_in.ndim = 2 THEN NumChannels(td_in.audio) ELSE 1)
        ELSE IF NumSamples(td_in.audio) = 0
        THEN /\ td_ret.is_none
             /\ td_ret.error.kind = "exception"
        ELSE /\ ~td_ret.is_none
             /\ td_ret.error.kind = "none"
             /\ \A j \in 1..Len(td_ret.tdoas) :
                    (td_in.audio[j + 1] = td_in.audio[1]
                        /\ \E n \in 1..NumSamples(td_in.audio) :
                               td_in.audio[1][n] # 0)
                    => td_ret.tdoas[j].num = 0

C14_Witness ==
    /\ TdReturned
    /\ TdMultiChannel
    /\ ~td_ret.is_none
    /\ td_in.audio[3] = td_in.audio[1]
    /\ td_in.audio[2] # td_in.audio[1]
    /\ td_ret.tdoas[1].num # 0
    /\ td_ret.tdoas[2].num = 0

C16_DelayBounded ==
    (TdReturned /\ ~td_ret.is_none) =>
        \A j \in 1..Len(td_ret.tdoas) :
            /\ td_ret.tdoas[j].den > 0
            /\ Abs(td_ret.tdoas[j].num) * 343 <= 2 * td_ret.tdoas[j].den
            /\ RawDelay(j).den > 0
            /\ IF Abs(RawDelay(j).num) * 343 > 2 * RawDelay(j).den
               THEN td_ret.tdoas[j] = ZeroDelay
               ELSE td_ret.tdoas[j] = RawDelay(j)

\* a correlation peak one sample off the zero lag at 1 Hz: a delay of 1 s
C16_Witness ==
    /\ TdReturned
    /\ ~td_ret.is_none
    /\ td_in.sr = 1
    /\ Abs(RawDelay(1).num) = RawDelay(1).den
    /\ td_ret.tdoas[1] = ZeroDelay

\* C17: when all channels of a waveform with 3 or more channels are
\* identical, every delay of the returned vector is zero.
C17_IdenticalChannelsZero ==
    (TdReturned /\ TdMultiChannel /\ ~td_ret.is_none
        /\ \A c \in 1..NumChannels(td_in.audio) :
               td_in.audio[c] = td_in.audio[1])
    => \A j \in 1..Len(td_ret.tdoas) : td_ret.tdoas[j].num = 0

\* the solver has returned a position
SvSolved == sv_pc = "done" /\ ~sv_ret.is_none

\* For the configured array A is the identity (in metres), so the
\* least-squares solution is x = 0.25 - d1^2, y = 0.25 - d2^2: in cm,
\* (2500 - k^2) / 100 for the delay k.
RawCoordinate(k) == Frac(2500 - k * k, 100)
RawOutside(k) == 2500 - k * k < 0 - 100000 \/ 2500 - k * k > 100000

\* C18: every position the solver returns lies in [-10, 10] m on both axes;
\* a least-squares solution with a coordinate outside the box is replaced
\* by the default point (1.0, 1.0), any other solution is returned as is.
C18_PositionInBox ==
    SvSolved =>
        /\ \A c \in 1..2 :
               /\ sv_ret.position[c].den > 0
               /\ Abs(sv_ret.position[c].num) <= 1000 * sv_ret.position[c].den
        /\ IF RawOutside(sv_in.tdoas[1]) \/ RawOutside(sv_in.tdoas[2])
           THEN sv_ret.position = DefaultPoint
           ELSE sv_ret.position = <<RawCoordinate(sv_in.tdoas[1]),
                                    RawCoordinate(sv_in.tdoas[2])>>

\* only the y coordinate of the solution leaves the box
C18_Witness ==
    /\ SvSolved
    /\ ~RawOutside(sv_in.tdoas[1])
    /\ RawOutside(sv_in.tdoas[2])
    /\ sv_ret.position = DefaultPoint

\* C19: the result of a substitution is flagged: it differs from what the
\* solver returns for a solution that is the point (1.0, 1.0) itself.
C19_FallbackFlagged ==
    (SvSolved /\ (RawOutside(sv_in.tdoas[1]) \/ RawOutside(sv_in.tdoas[2])))
        => sv_ret # SolvedReturn(<<Frac(100, 1), Frac(100, 1)>>)

\* pos is at most 5 cm from src.  The coordinates of a solution for the
\* configured array are multiples of 0.01 cm, the unit used here.
WithinTolerance(pos, src) ==
    LET dx == (pos[1].num * 100) \div pos[1].den - 100 * src[1]
        dy == (pos[2].num * 100) \div pos[2].den - 100 * src[2]
    IN  /\ Abs(dx) <= 500
        /\ Abs(dy) <= 500
        /\ dx * dx + dy * dy <= 500 * 500

\* C20: for the exact delays of a source at (1.0, 1.0) m the solver returns
\* a position within 0.05 m of (1.0, 1.0).  (The exact delays lie between
\* the integer delays of TestDelays1 and TestDelays2.)
C20_SolverRecoversSource ==
    (sv_pc = "done" /\ ~sv_in.is_none /\ Len(sv_in.tdoas) = 2
        /\ sv_in.tdoas[1] \in TestDelays1 /\ sv_in.tdoas[2] \in TestDelays2)
    => /\ ~sv_ret.is_none
       /\ WithinTolerance(sv_ret.position, TestSource)

\* the tensor is (3, n_mels, expected_time_frames), three copies of one
\* normalized array
IsFeatureTensor(f) ==
    /\ ~f.raised
    /\ Len(f.channels) = 3
    /\ \A c \in 1..3 :
           /\ f.channels[c].rows = 64
           /\ f.channels[c].frames = 259
           /\ f.channels[c].normalized
           /\ f.channels[c] = f.channels[1]

ExtractionFailed == pc = "done" /\ extract_calls = predict_calls + 1

\* C23: when extract_features fails during a detection call the classifier
\* is not invoked for that waveform and the call is answered with status
\* 'error'; a call answered with status 'success' ran the classifier on
\* every waveform it extracted features from.
C23_ExtractFailureIsError ==
    /\ pc = "done" => extract_calls \in {predict_calls, predict_calls + 1}
    /\ ExtractionFailed => status = "error"
    /\ Answered => extract_calls = predict_calls

\* the extraction of a short clip failed
C23_Witness ==
    /\ ExtractionFailed
    /\ analysis_type = "short_audio"
    /\ predict_calls = 0
    /\ status = "error"

\* C27: a scan that reports detected = true has at least one window that
\* was classified positive and its best segment is a positive window;
\* conversely a scan with a positive window reports detected = true.
C27_DetectedHasPositiveWindow ==
    ScanCompleted =>
        /\ detected =>
               /\ detected_segments >= 1
               /\ best_segment # NoSegment
               /\ best_segment.is_drone
        /\ (\E i \in 1..Len(segments) : segments[i].is_drone) => detected

\* C30: the refinement is skipped exactly when the discrete peak is the
\* first or the last element of the correlation array; when it is applied
\* its denominator is not zero and the offset is at most half a sample in
\* magnitude, so the refined index is finite and within 0.5 of peak_idx.
C30_RefinedPeakNearPeak ==
    pk_pc = "done" =>
        /\ pk_ret.peak_idx \in DOMAIN pk_in
        /\ pk_ret.refined <=>
               /\ pk_ret.peak_idx > 0
               /\ pk_ret.peak_idx < Cardinality(DOMAIN pk_in) - 1
        /\ pk_ret.oden # 0
        /\ 2 * Abs(pk_ret.onum) <= Abs(pk_ret.oden)
        /\ ~pk_ret.refined => pk_ret.onum = 0

\* a peak followed by an equal value: the offset is exactly half a sample
C30_Witness ==
    /\ pk_pc = "done"
    /\ pk_ret.refined
    /\ pk_ret.onum # 0
    /\ 2 * Abs(pk_ret.onum) = Abs(pk_ret.oden)

\* monitoring_loop threads that have not returned
LiveLoops == {t \in DOMAIN mon_threads : mon_threads[t].pc # "exited"}

\* C21: once is_monitoring is False, every loop terminates unless a start
\* sets the flag again; and a loop emits at most one drone_detected event
\* while the flag is False (the event of the iteration in progress).
C21_StopTerminatesLoop ==
    /\ [](\A t \in DOMAIN mon_threads : mon_threads[t].after_stop <= 1)
    /\ (~is_monitoring) ~> (LiveLoops = {} \/ is_monitoring)

\* a loop emitted the event of its iteration in progress after a stop and
\* then returned
C21_Witness ==
    /\ ~is_monitoring
    /\ \E t \in DOMAIN mon_threads :
           mon_threads[t].pc = "exited" /\ mon_threads[t].after_stop = 1
    /\ \E h \in DOMAIN mon_handlers :
           mon_handlers[h].kind = "stop" /\ mon_handlers[h].pc = "done"

\* C22: under every interleaving of start and stop requests at most one
\* monitoring loop is running at any time.
C22_AtMostOneLoop == Cardinality(LiveLoops) <= 1

\* C28: a start handler that finds monitoring active answers with the error
\* 'Monitoring already active' and changes nothing: is_monitoring stays
\* True and no thread is created.
C28_StartWhileActiveRejected ==
    [][\A h \in DOMAIN mon_handlers :
          (/\ mon_handlers[h].kind = "start"
           /\ mon_handlers[h].pc = "begin"
           /\ is_monitoring
           /\ mon_handlers'[h] # mon_handlers[h])
          => /\ mon_handlers'[h].pc = "done"
             /\ mon_handlers'[h].response = "already_active"
             /\ is_monitoring'
             /\ mon_threads' = mon_threads]_vars

\* a second start was rejected while the loop of the first one runs
C28_Witness ==
    /\ is_monitoring
    /\ Cardinality(LiveLoops) = 1
    /\ \E h \in DOMAIN mon_handlers :
           mon_handlers[h].response = "already_active"

\* the last call of start_monitoring was left by the exception of
\* start_capture
StartFailed == det_call.op = "start" /\ det_call.pc = "raised"

\* C29: after a start of real-time monitoring that failed the detector is
\* not in the monitoring state: is_monitoring is False.
C29_FailedStartNotMonitoring ==
    StartFailed => ~rt_det.is_monitoring

\* C24: extract_features raises when a step yields a nan or an infinity,
\* for example when the waveform holds a nan; a tensor it returns holds
\* only finite values.
C24_NonFiniteRaises ==
    fx_pc = "done" =>
        /\ ~fx_in.finite => fx_state.raised
        /\ ~fx_state.raised =>
               \A c \in 1..Len(fx_state.channels) :
                   fx_state.channels[c].finite

ProperTriple(i) ==
    /\ mf_in.fft_bins[i] < mf_in.fft_bins[i + 1]
    /\ mf_in.fft_bins[i + 1] < mf_in.fft_bins[i + 2]

\* C26: building the mel filter bank never raises and gives n_mels rows of
\* n_fft_bins values; a filter whose triple (left, center, right) is not
\* strictly increasing is an all-zero row, and every other filter is zero
\* outside the bins left .. right - 1.
C26_FilterbankShape ==
    mf_pc = "done" =>
        /\ ~mf_ret.raised
        /\ Len(mf_ret.filters) = mf_in.n_mels
        /\ \A i \in 1..mf_in.n_mels :
               /\ DOMAIN mf_ret.filters[i] = 0..(mf_in.n_fft_bins - 1)
               /\ \A b \in 0..(mf_in.n_fft_bins - 1) :
                      mf_ret.filters[i][b].num # 0 =>
                          /\ ProperTriple(i)
                          /\ mf_in.fft_bins[i] <= b
                          /\ b < mf_in.fft_bins[i + 2]

\* a bank with a degenerate filter whose centre lies on its left bin, next
\* to a proper filter with a non-zero value
C26_Witness ==
    /\ mf_pc = "done"
    /\ ~mf_ret.raised
    /\ \E i \in 1..mf_in.n_mels :
           /\ mf_in.fft_bins[i] = mf_in.fft_bins[i + 1]
           /\ mf_in.fft_bins[i + 1] < mf_in.fft_bins[i + 2]
           /\ \A b \in 0..(mf_in.n_fft_bins - 1) :
                  mf_ret.filters[i][b].num = 0
    /\ \E j \in 1..mf_in.n_mels :
           /\ ProperTriple(j)
           /\ \E b \in 0..(mf_in.n_fft_bins - 1) :
                  mf_ret.filters[j][b].num # 0

====
